---- MODULE Spec2Model ----
(***************************************************************************)
(* Model of tltorch/factorized_layers/factorized_embedding.py:             *)
(* FactorizedEmbedding.__init__, reset_parameters, forward and             *)
(* from_embedding, together with the parts of suggest_shape and            *)
(* TensorizedTensor the layer calls (those two live outside the file and   *)
(* are modelled from their documented contract).                           *)
(***************************************************************************)
EXTENDS Integers, Sequences, FiniteSets, TLC

VARIABLES pc, call, self, weight, log, raised, resets, input, out

vars == <<pc, call, self, weight, log, raised, resets, input, out>>

(* ------------------------------ bounds -------------------------------- *)

\* requested num_embeddings / embedding_dim range over 1..MaxN
MaxN == 4

\* number of reset_parameters calls a user makes on a constructed layer
MaxResets == 1

(* --------------------------- program constants ------------------------ *)

\* rank=8 default of __init__ and from_embedding
DefaultRank == 8

\* d=(3, 3) default of __init__
DefaultD == [int |-> FALSE, v |-> <<3, 3>>]

(* ------------------------------ values -------------------------------- *)

\* Python's None for an optional shape / an absent object
None == [some |-> FALSE, v |-> <<>>]

Some(s) == [some |-> TRUE, v |-> s]

\* an int d and a tuple d
IntD(k) == [int |-> TRUE, v |-> <<k>>]

PairD(a, b) == [int |-> FALSE, v |-> <<a, b>>]

RECURSIVE Prod(_)
\* np.prod of a tuple of ints
Prod(s) == IF s = <<>> THEN 1 ELSE Head(s) * Prod(Tail(s))

RECURSIVE Pow(_, _)
Pow(b, k) == IF k = 0 THEN 1 ELSE b * Pow(b, k - 1)

(* ---------------------------- suggest_shape --------------------------- *)

\* smallest b with b^d >= n: the side of the smallest d-cube holding n
CubeSide(n, d) == CHOOSE b \in 1..n : Pow(b, d) >= n /\ \A c \in 1..(b - 1) : Pow(c, d) < n

RECURSIVE Shrink(_, _, _)
\* walk the factors left to right, lowering each by one while the product
\* stays >= n: the near-equal shape with the smallest product found greedily
Shrink(shape, i, n) ==
    IF i > Len(shape) THEN shape
    ELSE LET lowered == [j \in 1..Len(shape) |-> IF j = i THEN shape[j] - 1 ELSE shape[j]]
         IN  IF shape[i] > 1 /\ Prod(lowered) >= n
             THEN Shrink(lowered, i + 1, n)
             ELSE Shrink(shape, i + 1, n)

\* suggest_shape(n, d): d near-equal positive factors with product >= n
\* (suggest_shape(1000, 3) = (10, 10, 10), suggest_shape(37, 2) = (6, 7))
suggest_shape(n, d) == Shrink([i \in 1..d |-> CubeSide(n, d)], 1, n)

(* ------------------------- TensorizedTensor --------------------------- *)

\* the factorization registry behind TensorizedTensor.new: names are looked
\* up case-insensitively, so 'blocktt' (the layer's default) is BlockTT
SchemeOf(name) ==
    CASE name \in {"blocktt", "BlockTT"} -> "BlockTT"
      [] name \in {"cp", "CP"} -> "CP"
      [] name \in {"tucker", "Tucker"} -> "Tucker"

NoContent == [kind |-> "none", mean |-> 0, inv_var |-> 0, src |-> <<>>]

NoWeight == [allocated |-> FALSE, scheme |-> "", shape |-> <<<<>>, <<>>>>, rank |-> 0, content |-> NoContent]

Entry(op, arg) == [op |-> op, arg |-> arg]

\* TensorizedTensor.new(shape, rank, factorization): allocates the factors
TensorizedTensor_new(shape, rank, factorization) ==
    [allocated |-> TRUE, scheme |-> SchemeOf(factorization), shape |-> shape,
     rank |-> rank, content |-> NoContent]

\* weight.normal_(mean, std) with std = 1/sqrt(inv_var): overwrites every factor
normal_(w, mean, inv_var) ==
    [w EXCEPT !.content = [kind |-> "normal", mean |-> mean, inv_var |-> inv_var, src |-> <<>>]]

\* shape of densify(w): product of row modes by product of column modes
DenseShape(w) == <<Prod(w.shape[1]), Prod(w.shape[2])>>

\* init_from_matrix reshapes the (R, C) matrix into the tensor's full shape:
\* possible only when the element counts agree
ReshapeFits(w, matrix_shape) == Prod(matrix_shape) = Prod(DenseShape(w))

\* weight.init_from_matrix(matrix): overwrites every factor with the decomposition
init_from_matrix(w, matrix_shape) ==
    [w EXCEPT !.content = [kind |-> "matrix", mean |-> 0, inv_var |-> 0, src |-> matrix_shape]]

\* row r of densify(w); entry (r, c) of the table is the token <<r, c>>
DenseRow(w, r) == [c \in 1..Prod(w.shape[2]) |-> <<r, c>>]

\* weight[input, :] for a flat index sequence: one table row per index, in a
\* scheme-specific container (BlockTT: dense 2-D array; CP: a CP object that
\* to_matrix densifies; Tucker: an n-d tensor, possibly not contiguous)
index_rows(w, flat, contiguous) ==
    [kind |-> CASE w.scheme = "BlockTT" -> "dense"
                [] w.scheme = "CP" -> "cp"
                [] w.scheme = "Tucker" -> "tucker_nd",
     contiguous |-> (w.scheme = "BlockTT") \/ (w.scheme = "Tucker" /\ contiguous),
     rows |-> [i \in 1..Len(flat) |-> DenseRow(w, flat[i])]]

\* CPTensorized.to_matrix(): the dense 2-D array of the sliced rows
to_matrix(x) == [x EXCEPT !.kind = "dense", !.contiguous = TRUE]

\* tensor.reshape(n, -1): a contiguous 2-D array with n rows
reshape2d(x, n) == [x EXCEPT !.kind = "dense", !.contiguous = TRUE]

(* ------------------------ FactorizedEmbedding -------------------------- *)

NoSelf ==
    [num_embeddings |-> 0, embedding_dim |-> 0, tensor_shape |-> <<<<>>, <<>>>>,
     weight_shape |-> <<0, 0>>, factorization |-> "", rank |-> 0]

\* an object under construction or constructed: the layer's fields, its
\* weight, the calls made on the weight so far, and the exception raised
Obj(s, w, l, e) == [self |-> s, weight |-> w, log |-> l, raised |-> e]

\* variant: the conflict is seen only when both shapes are given
AutoConflictBoth(tne, ted) == tne # None /\ ted # None

\* "assert tensorized_num_embeddings is None and tensorized_embedding_dim is
\* None" fails
AutoConflict(tne, ted) == ~(tne = None /\ ted = None)

\* "if type(d) == int: d = (d, d)"
ExpandD(d) == IF d.int THEN <<d.v[1], d.v[1]>> ELSE d.v

\* variant: d[0] used for both table dimensions
AutoShapesSameD(n, e, d) ==
    LET dd == ExpandD(d)
    IN  <<suggest_shape(n, dd[1]), suggest_shape(e, dd[1])>>

\* the two suggest_shape calls of the auto_reshape branch
AutoShapes(n, e, d) ==
    LET dd == ExpandD(d)
    IN  <<suggest_shape(n, dd[1]), suggest_shape(e, dd[2])>>

\* variant: only the first product is compared
ExplicitValidRowsOnly(n, e, tne, ted) ==
    /\ tne.some /\ ted.some
    /\ Prod(tne.v) = n

\* "assert np.prod(tensorized_num_embeddings) == num_embeddings and
\* np.prod(tensorized_embedding_dim) == embedding_dim" passes (np.prod(None)
\* is None, which equals no int)
ExplicitValid(n, e, tne, ted) ==
    /\ tne.some /\ ted.some
    /\ Prod(tne.v) = n
    /\ Prod(ted.v) = e

\* variant: the requested sizes are stored unchanged
StoredSizesRequested(n, e, shapes, auto) == <<n, e>>

\* the (num_embeddings, embedding_dim) the layer stores: the products of the
\* suggested shapes in auto mode, the (validated) arguments otherwise
StoredSizes(n, e, shapes, auto) ==
    IF auto THEN <<Prod(shapes[1]), Prod(shapes[2])>> ELSE <<n, e>>

\* reset_parameters: weight.normal_(0, 1 / sqrt(3 * num_embeddings))
reset_parameters(o) ==
    [o EXCEPT !.weight = normal_(o.weight, 0, 3 * o.self.num_embeddings),
              !.log = Append(o.log, Entry("normal_", <<0, 3 * o.self.num_embeddings>>))]

\* the part of __init__ after the argument checks: store the fields, allocate
\* the weight, reset_parameters, read back the rank
Build(n, e, shapes, auto, factorization, rank) ==
    LET sz == StoredSizes(n, e, shapes, auto)
        w  == TensorizedTensor_new(shapes, rank, factorization)
        s  == [num_embeddings |-> sz[1], embedding_dim |-> sz[2],
               tensor_shape |-> shapes, weight_shape |-> <<sz[1], sz[2]>>,
               factorization |-> factorization, rank |-> w.rank]
    IN  reset_parameters(Obj(s, w, <<Entry("new", <<>>)>>, "none"))

\* variant: the weight is allocated and initialised before the arguments
\* are checked
LateChecks(n, e, auto, d, tne, ted, factorization, rank) ==
    LET shapes == IF auto THEN AutoShapes(n, e, d) ELSE <<tne.v, ted.v>>
        o == Build(n, e, shapes, auto, factorization, rank)
        bad == IF auto THEN AutoConflict(tne, ted) ELSE ~ExplicitValid(n, e, tne, ted)
    IN  IF bad THEN [o EXCEPT !.raised = "ValueError"] ELSE o

\* FactorizedEmbedding.__init__
__init__(n, e, auto, d, tne, ted, factorization, rank) ==
    IF auto
    THEN IF AutoConflict(tne, ted)
         THEN Obj(NoSelf, NoWeight, <<>>, "ValueError")
         ELSE Build(n, e, AutoShapes(n, e, d), auto, factorization, rank)
    ELSE IF ~ExplicitValid(n, e, tne, ted)
         THEN Obj(NoSelf, NoWeight, <<>>, "ValueError")
         ELSE Build(n, e, <<tne.v, ted.v>>, auto, factorization, rank)

\* variant: the decompose_weights flag is ignored
AlwaysReset(o, decompose_weights, matrix_shape) == reset_parameters(o)

\* the initialisation branch of from_embedding on a constructed instance
InitInstance(o, decompose_weights, matrix_shape) ==
    IF decompose_weights
    THEN IF ReshapeFits(o.weight, matrix_shape)
         THEN [o EXCEPT !.weight = init_from_matrix(o.weight, matrix_shape),
                        !.log = Append(o.log, Entry("init_from_matrix", matrix_shape))]
         ELSE [o EXCEPT !.log = Append(o.log, Entry("init_from_matrix", matrix_shape)),
                        !.raised = "RuntimeError"]
    ELSE reset_parameters(o)

\* FactorizedEmbedding.from_embedding on a layer whose weight has shape (R, C)
from_embedding(R, C, rank, factorization, decompose_weights, auto, d, tne, ted) ==
    LET instance == __init__(R, C, auto, d, tne, ted, factorization, rank)
    IN  IF instance.raised # "none" THEN instance
        ELSE InitInstance(instance, decompose_weights, <<R, C>>)

(* ------------------------------ forward -------------------------------- *)

RECURSIVE Concat(_)
\* the elements of a sequence of sequences, in order
Concat(ss) == IF ss = <<>> THEN <<>> ELSE Head(ss) \o Concat(Tail(ss))

\* consecutive chunks of k elements
Chunk(x, k) == [i \in 1..(Len(x) \div k) |-> SubSeq(x, (i - 1) * k + 1, i * k)]

Front(s) == SubSeq(s, 1, Len(s) - 1)

RECURSIVE Nest(_, _)
\* a row-major buffer nested into the given shape
Nest(x, shape) ==
    IF Len(shape) = 1 THEN x ELSE Nest(Chunk(x, shape[Len(shape)]), Front(shape))

\* input.view(-1): the row-major flattening of a 1-D or 2-D index tensor
Flatten(t) == IF Len(t.shape) = 1 THEN t.v ELSE Concat(t.v)

NoOut == [status |-> "none", shape |-> <<>>, data |-> <<>>, step |-> ""]

\* embeddings.view(output_shape): only a dense contiguous array whose element
\* count matches can be viewed
View(x, output_shape) ==
    IF x.kind = "cp" THEN [status |-> "AttributeError", shape |-> <<>>, data |-> <<>>]
    ELSE IF ~x.contiguous \/ Len(Concat(x.rows)) # Prod(output_shape)
    THEN [status |-> "RuntimeError", shape |-> <<>>, data |-> <<>>]
    ELSE [status |-> "ok", shape |-> output_shape, data |-> Nest(Concat(x.rows), output_shape)]

\* which scheme-specific step forward takes, decided by comparing the stored
\* factorization name with 'CP' and 'Tucker'
PostStep(factorization) ==
    IF factorization = "CP" THEN "to_matrix"
    ELSE IF factorization = "Tucker" THEN "reshape"
    ELSE "none"

PostProcess(step, embeddings, n) ==
    CASE step = "to_matrix" -> to_matrix(embeddings)
      [] step = "reshape" -> reshape2d(embeddings, n)
      [] OTHER -> embeddings

\* FactorizedEmbedding.forward; the result also records the step taken
forward(s, w, t, contiguous) ==
    LET output_shape == t.shape \o <<s.embedding_dim>>
        flat == Flatten(t)
        embeddings == index_rows(w, flat, contiguous)
        step == PostStep(s.factorization)
        r == View(PostProcess(step, embeddings, Len(flat)), output_shape)
    IN  [status |-> r.status, shape |-> r.shape, data |-> r.data, step |-> step]

(* ------------------------------- inputs -------------------------------- *)

Sizes == 1..MaxN

\* explicit tensorized shapes a caller may pass
Shapes == {<<2>>, <<3>>, <<1, 2>>, <<2, 2>>}

ShapeOpts == {None} \cup {Some(sh) : sh \in Shapes}

\* values of d a caller may pass
DVals == {IntD(2), PairD(1, 2), DefaultD}

Factorizations == {"blocktt", "CP", "cp", "Tucker", "tucker"}

\* shapes of the index tensors handed to forward
IndexShapes == {<<2>>, <<1, 2>>, <<2, 2>>}

\* in-range index values tried: the first and the last row
IndexVals(n) == {0, n - 1}

\* the index tensors of one shape, as nested sequences
IndexData(sh, n) ==
    IF Len(sh) = 1
    THEN [1..sh[1] -> IndexVals(n)]
    ELSE [1..sh[1] -> [1..sh[2] -> IndexVals(n)]]

\* memory layouts the slice of the weight may come back in: only the Tucker
\* contraction is not guaranteed contiguous
Layouts(w) == IF w.scheme = "Tucker" THEN BOOLEAN ELSE {TRUE}

NoInput == [shape |-> <<>>, v |-> <<>>]

NoCall ==
    [via |-> "", num_embeddings |-> 0, embedding_dim |-> 0, auto_reshape |-> FALSE,
     d |-> DefaultD, tne |-> None, ted |-> None, factorization |-> "",
     decompose_weights |-> FALSE]

(* --------------------------- state machine ----------------------------- *)

Init ==
    /\ pc = "start"
    /\ call = NoCall
    /\ self = NoSelf
    /\ weight = NoWeight
    /\ log = <<>>
    /\ raised = "none"
    /\ resets = 0
    /\ input = NoInput
    /\ out = NoOut

Finish(o) ==
    /\ self' = o.self
    /\ weight' = o.weight
    /\ log' = o.log
    /\ raised' = o.raised
    /\ pc' = IF o.raised = "none" THEN "constructed" ELSE "raised"

\* layer = FactorizedEmbedding(n, e, auto_reshape, d, tne, ted, factorization)
Construct ==
    /\ pc = "start"
    /\ \E n \in Sizes, e \in Sizes, auto \in BOOLEAN, d \in DVals,
          tne \in ShapeOpts, ted \in ShapeOpts, f \in Factorizations :
          /\ (~auto => d = DefaultD)
          /\ call' = [via |-> "__init__", num_embeddings |-> n, embedding_dim |-> e,
                      auto_reshape |-> auto, d |-> d, tne |-> tne, ted |-> ted,
                      factorization |-> f, decompose_weights |-> FALSE]
          /\ Finish(__init__(n, e, auto, d, tne, ted, f, DefaultRank))
    /\ UNCHANGED <<resets, input, out>>

\* layer = FactorizedEmbedding.from_embedding(nn.Embedding(R, C), ...)
FromEmbedding ==
    /\ pc = "start"
    /\ \E R \in Sizes, C \in Sizes, auto \in BOOLEAN, d \in DVals,
          tne \in ShapeOpts, ted \in ShapeOpts, f \in Factorizations,
          dec \in BOOLEAN :
          /\ (~auto => d = DefaultD)
          /\ call' = [via |-> "from_embedding", num_embeddings |-> R, embedding_dim |-> C,
                      auto_reshape |-> auto, d |-> d, tne |-> tne, ted |-> ted,
                      factorization |-> f, decompose_weights |-> dec]
          /\ Finish(from_embedding(R, C, DefaultRank, f, dec, auto, d, tne, ted))
    /\ UNCHANGED <<resets, input, out>>

\* layer(indices) with in-range indices
Forward ==
    /\ pc = "constructed"
    /\ \E sh \in IndexShapes, contiguous \in Layouts(weight) :
          \E v \in IndexData(sh, self.num_embeddings) :
             LET t == [shape |-> sh, v |-> v]
             IN  /\ input' = t
                 /\ out' = forward(self, weight, t, contiguous)
    /\ UNCHANGED <<pc, call, self, weight, log, raised, resets>>

\* layer.reset_parameters()
ResetParameters ==
    /\ pc = "constructed"
    /\ resets < MaxResets
    /\ resets' = resets + 1
    /\ LET o == reset_parameters(Obj(self, weight, log, raised))
       IN  /\ weight' = o.weight
           /\ log' = o.log
    /\ UNCHANGED <<pc, call, self, raised, input, out>>

Next == Construct \/ FromEmbedding \/ Forward \/ ResetParameters

Spec == Init /\ [][Next]_vars

(* ------------------------------ properties ----------------------------- *)

Made == call.via # ""

Returned == pc = "constructed"

\* the d pair the call asked for, an int d meaning (d, d)
AskedD == IF call.d.int THEN <<call.d.v[1], call.d.v[1]>> ELSE call.d.v

\* the output of the last forward at every position of its index tensor is
\* the table row that position names
RowsMatch ==
    IF Len(input.shape) = 1
    THEN \A i \in 1..input.shape[1] : out.data[i] = DenseRow(weight, input.v[i])
    ELSE \A i \in 1..input.shape[1] : \A j \in 1..input.shape[2] :
            out.data[i][j] = DenseRow(weight, input.v[i][j])

\* C1: forward on an index tensor of shape S returns an array of shape
\* (*S, E) with E the embedding_dim the caller requested
C1_ForwardShapeRequested ==
    out.status = "ok" => out.shape = input.shape \o <<call.embedding_dim>>

\* C2: a layer returned by from_embedding for a table of shape (R, C) has
\* num_embeddings = R and embedding_dim = C, and its weight densifies to (R, C)
C2_FromEmbeddingMatchingSize ==
    (Returned /\ call.via = "from_embedding") =>
        /\ self.num_embeddings = call.num_embeddings
        /\ self.embedding_dim = call.embedding_dim
        /\ DenseShape(weight) = <<call.num_embeddings, call.embedding_dim>>

\* C3: auto_reshape together with an explicit tensorized shape (either one or
\* both) always raises ValueError
C3_ConflictRaises ==
    (Made /\ call.auto_reshape /\ (call.tne.some \/ call.ted.some)) =>
        (pc = "raised" /\ raised = "ValueError")

C3_Witness ==
    /\ Made /\ call.auto_reshape
    /\ call.tne.some /\ ~call.ted.some
    /\ raised = "ValueError"

\* C4: without auto_reshape the constructor succeeds only if both products
\* match the requested sizes, and raises ValueError when a product differs
\* or a shape is missing
C4_ExplicitProducts ==
    (Made /\ ~call.auto_reshape) =>
        LET match == /\ call.tne.some /\ call.ted.some
                     /\ Prod(call.tne.v) = call.num_embeddings
                     /\ Prod(call.ted.v) = call.embedding_dim
        IN  /\ ~match => (pc = "raised" /\ raised = "ValueError")
            /\ raised = "none" => match

C4_Witness ==
    /\ Made /\ ~call.auto_reshape
    /\ call.tne.some /\ call.ted.some
    /\ Prod(call.tne.v) = call.num_embeddings
    /\ Prod(call.ted.v) # call.embedding_dim
    /\ raised = "ValueError"

\* C5: for every scheme, forward returns at each position of the index tensor
\* the densified table's row for the index at that position
C5_ForwardRows ==
    out.status # "none" => (out.status = "ok" /\ RowsMatch)

\* C6: forward takes the step of the scheme the weight was built with:
\* to_matrix for CP, reshape for Tucker, none for BlockTT, whatever the
\* spelling of the factorization name
C6_StepMatchesScheme ==
    out.status # "none" =>
        out.step = CASE weight.scheme = "CP" -> "to_matrix"
                     [] weight.scheme = "Tucker" -> "reshape"
                     [] OTHER -> "none"

\* calls of init_from_matrix made on the weight
InitFromMatrixCalls == {i \in 1..Len(log) : log[i].op = "init_from_matrix"}

\* C7: from_embedding with decompose_weights calls init_from_matrix exactly
\* once, on the table's data, after the constructor's normal_, and returns the
\* decomposition's factors; without it init_from_matrix is never called and
\* the returned factors are normal_(0, 1/sqrt(3 * num_embeddings)) draws
C7_InitByFlag ==
    (call.via = "from_embedding" /\ raised # "ValueError") =>
        IF call.decompose_weights
        THEN /\ Cardinality(InitFromMatrixCalls) = 1
             /\ \A i \in InitFromMatrixCalls :
                   /\ log[i].arg = <<call.num_embeddings, call.embedding_dim>>
                   /\ \E j \in 1..(i - 1) : log[j].op = "normal_"
             /\ (Returned /\ resets = 0) =>
                   /\ weight.content.kind = "matrix"
                   /\ weight.content.src = <<call.num_embeddings, call.embedding_dim>>
        ELSE /\ InitFromMatrixCalls = {}
             /\ Returned
             /\ weight.content = [kind |-> "normal", mean |-> 0,
                                  inv_var |-> 3 * self.num_embeddings, src |-> <<>>]

C7_Witness ==
    /\ call.via = "from_embedding" /\ call.decompose_weights
    /\ Returned /\ resets = 0
    /\ weight.content.kind = "matrix"

\* C8: a ValueError of the constructor leaves no weight allocated and no
\* initialisation run, and a forward on a constructed layer never fails for
\* its shapes or arguments: the only failing forwards are those whose
\* factorization name is a spelling the scheme step does not recognise
C8_ValidationAtConstruction ==
    /\ raised = "ValueError" => (~weight.allocated /\ log = <<>> /\ pc = "raised")
    /\ out.status \notin {"none", "ok"} =>
          (weight.scheme # "BlockTT" /\ self.factorization \notin {"CP", "Tucker"})

C8_Witness ==
    /\ call.via = "from_embedding" /\ ~call.auto_reshape
    /\ call.tne.some /\ call.ted.some
    /\ raised = "ValueError"

\* C9: in auto mode the tensor shape has d[0] row modes and d[1] column modes
\* (an int d meaning (d, d)), every mode is >= 1, and the products are >= the
\* requested num_embeddings and embedding_dim
C9_AutoShape ==
    (Returned /\ call.auto_reshape) =>
        /\ Len(self.tensor_shape[1]) = AskedD[1]
        /\ Len(self.tensor_shape[2]) = AskedD[2]
        /\ \A k \in 1..2 : \A i \in 1..Len(self.tensor_shape[k]) : self.tensor_shape[k][i] >= 1
        /\ Prod(self.tensor_shape[1]) >= call.num_embeddings
        /\ Prod(self.tensor_shape[2]) >= call.embedding_dim

C9_Witness ==
    /\ Returned /\ call.auto_reshape
    /\ call.d = PairD(1, 2)
    /\ Prod(self.tensor_shape[2]) > call.embedding_dim

\* C10: on every constructed layer, after any forward and reset_parameters
\* calls, num_embeddings and embedding_dim are the products of the two halves
\* of tensor_shape, weight_shape is their pair, and it is the densified shape
\* of the weight
C10_SizesAreProducts ==
    Returned =>
        /\ self.num_embeddings = Prod(self.tensor_shape[1])
        /\ self.embedding_dim = Prod(self.tensor_shape[2])
        /\ self.weight_shape = <<self.num_embeddings, self.embedding_dim>>
        /\ DenseShape(weight) = self.weight_shape

C10_Witness ==
    /\ Returned /\ call.auto_reshape
    /\ resets > 0 /\ out.status = "ok"
    /\ self.num_embeddings > call.num_embeddings

====
